---- MODULE Spec2Model ----
(***************************************************************************)
(* A model of validate_landing_page_links.py: the ProductValidator         *)
(* pipeline (manifest fetch, landing page scrape, cross-reference          *)
(* validation, family page validation, report generation, process exit)   *)
(* and the name normalizer it is built on.                                 *)
(*                                                                         *)
(* Python strings the code inspects character by character (product names, *)
(* slugs, path segments) are sequences of one-character strings.  An href  *)
(* is the sequence of its pieces between "/" characters, so "/total/net/"  *)
(* is << <<>>, total, net, <<>> >>: the split of a string on "/" is        *)
(* one-to-one with the string.                                             *)
(***************************************************************************)
EXTENDS Integers, Sequences, FiniteSets, TLC

VARIABLES
    pc,                      \* position of main()/run()
    manifestResp,            \* what requests.get(json_url) gave (input, kept)
    products_data,           \* self.products_data, in dict order
    errors,                  \* self.errors
    warnings,                \* self.warnings
    landingResp,             \* what requests.get(landing_page_url) gave (input, kept)
    soup,                    \* the parsed landing page: its anchors, or None
    family_links,            \* self.found_links["family_links"]
    product_links,           \* self.found_links["product_links"]
    family_page_validations, \* self.found_links["family_page_validations"]
    familyResp,              \* product name -> what its family page GET gave (kept)
    requestLog,              \* every GET issued after the landing page, in order
    reportFile,              \* validation_report.md, or None
    jsonFile,                \* product_links.json, or None
    success,                 \* the value run() returned
    exitCode,                \* the argument of sys.exit
    stages,                  \* the methods run() has called so far, in order
    rawName,                 \* name normalizer: the raw product name
    normalized,              \* name normalizer: normalize_product_name's result
    variations,              \* name normalizer: get_product_name_variations' result
    npc                      \* name normalizer: position

vars == <<pc, manifestResp, products_data, errors, warnings, landingResp, soup,
          family_links, product_links, family_page_validations, familyResp,
          requestLog, reportFile, jsonFile, success, exitCode, stages,
          rawName, normalized, variations, npc>>

pipelineVars == <<pc, manifestResp, products_data, errors, warnings, landingResp,
                  soup, family_links, product_links, family_page_validations,
                  familyResp, requestLog, reportFile, jsonFile, success, exitCode,
                  stages>>

normVars == <<rawName, normalized, variations, npc>>

None == "None"

-----------------------------------------------------------------------------
(* Python str operations, on sequences of characters.                      *)

UpperLetters ==
    <<"A","B","C","D","E","F","G","H","I","J","K","L","M",
      "N","O","P","Q","R","S","T","U","V","W","X","Y","Z">>

LowerLetters ==
    <<"a","b","c","d","e","f","g","h","i","j","k","l","m",
      "n","o","p","q","r","s","t","u","v","w","x","y","z">>

LowerTable ==
    [c \in {UpperLetters[i] : i \in 1..Len(UpperLetters)} |->
        LowerLetters[CHOOSE i \in 1..Len(UpperLetters) : UpperLetters[i] = c]]

LowerChar(c) == IF c \in DOMAIN LowerTable THEN LowerTable[c] ELSE c

\* str.lower()
Lower(s) == [i \in 1..Len(s) |-> LowerChar(s[i])]

\* str.endswith(suffix)
EndsWith(s, suffix) ==
    /\ Len(s) >= Len(suffix)
    /\ SubSeq(s, Len(s) - Len(suffix) + 1, Len(s)) = suffix

\* str.startswith(prefix)
StartsWith(s, prefix) ==
    /\ Len(s) >= Len(prefix)
    /\ SubSeq(s, 1, Len(prefix)) = prefix

\* str.replace(old, new): every non-overlapping occurrence, leftmost first
RECURSIVE Replace(_, _, _)
Replace(s, old, new) ==
    IF Len(s) < Len(old) THEN s
    ELSE IF SubSeq(s, 1, Len(old)) = old
         THEN new \o Replace(SubSeq(s, Len(old) + 1, Len(s)), old, new)
         ELSE <<s[1]>> \o Replace(Tail(s), old, new)

Whitespace == {" ", "\t", "\n"}

\* str.strip()
RECURSIVE Strip(_)
Strip(s) ==
    IF s = <<>> THEN s
    ELSE IF s[1] \in Whitespace THEN Strip(Tail(s))
    ELSE IF s[Len(s)] \in Whitespace THEN Strip(SubSeq(s, 1, Len(s) - 1))
    ELSE s

\* s[:-n]
DropLast(s, n) == SubSeq(s, 1, Len(s) - n)

\* The literals of the code.
GroupDocsDot == <<"G","r","o","u","p","D","o","c","s",".">>
DashCli == <<"-","c","l","i">>
DotUi == <<".","u","i">>
DashUi == <<"-","u","i">>
Dot == <<".">>
Dash == <<"-">>

-----------------------------------------------------------------------------
(* The name normalizer.                                                    *)

\* A plausible slip: the suffix test without lower().
ShouldIgnoreProductCaseSensitive(product_name) ==
    \/ EndsWith(product_name, DashCli)
    \/ EndsWith(product_name, DotUi)
    \/ EndsWith(product_name, DashUi)

ShouldIgnoreProduct(product_name) ==
    LET name_lower == Lower(product_name)
    IN  \/ EndsWith(name_lower, DashCli)
        \/ EndsWith(name_lower, DotUi)
        \/ EndsWith(name_lower, DashUi)

NormalizeProductName(product_name) ==
    LET name1 == Strip(Replace(product_name, GroupDocsDot, <<>>))
        name2 == Lower(name1)
    IN  Replace(name2, Dot, Dash)

GetProductNameVariations(product_name) ==
    LET n  == NormalizeProductName(product_name)
        v1 == <<n>>
        v2 == IF EndsWith(n, DashUi) THEN Append(v1, DropLast(n, 3)) ELSE v1
    IN  IF EndsWith(n, DashCli) THEN Append(v2, DropLast(n, 4)) ELSE v2

-----------------------------------------------------------------------------
(* Ordering of strings (sorted(), and the sort key of the platform         *)
(* columns): by code point, for the characters the model uses.             *)

AsciiOrder == <<"\t", "\n", " ", "-", ".">> \o UpperLetters \o LowerLetters

CharCode(c) == CHOOSE i \in 1..Len(AsciiOrder) : AsciiOrder[i] = c

\* Python's s < t on str
RECURSIVE StrLess(_, _)
StrLess(s, t) ==
    IF t = <<>> THEN FALSE
    ELSE IF s = <<>> THEN TRUE
    ELSE IF s[1] = t[1] THEN StrLess(Tail(s), Tail(t))
    ELSE CharCode(s[1]) < CharCode(t[1])

-----------------------------------------------------------------------------
(* Platform vocabulary.                                                    *)

pNet == <<"n","e","t">>
pJava == <<"j","a","v","a">>
pNodejsJava == <<"n","o","d","e","j","s","-","j","a","v","a">>
pPythonNet == <<"p","y","t","h","o","n","-","n","e","t">>
pNodejs == <<"n","o","d","e","j","s">>
pPython == <<"p","y","t","h","o","n">>
kFamily == <<"f","a","m","i","l","y">>

\* the alternation (net|java|nodejs-java|python-net) of both regular expressions
PlatformTokens == {pNet, pJava, pNodejsJava, pPythonNet}

GetPlatformSlug(platform) ==
    CASE platform = pNet -> pNet
      [] platform = pJava -> pJava
      [] platform = pNodejsJava -> pNodejs
      [] platform = pPythonNet -> pPython
      [] OTHER -> platform

\* "Normalize platform URLs to standard platform names"
PlatformOfToken(platform_url) ==
    IF platform_url = pPythonNet THEN pPython
    ELSE IF platform_url = pNodejsJava THEN pNodejs
    ELSE platform_url

-----------------------------------------------------------------------------
(* URLs and hrefs.                                                         *)

BaseUrl == "https://products.groupdocs.com"

\* urljoin(self.base_url, href) for an href that starts with one "/"
UrlJoin(base, href) == [origin |-> base, path |-> href]

\* JSON null / Python None where a URL is expected
NoUrl == [origin |-> None, path |-> <<>>]

\* href.startswith('/')
HrefStartsWithSlash(href) == Len(href) >= 2 /\ href[1] = <<>>

\* re.match(r'^/[^/]+/$', href)
IsFamilyHref(href) ==
    /\ Len(href) = 3
    /\ href[1] = <<>>
    /\ href[2] # <<>>
    /\ href[3] = <<>>

\* href.startswith('/') and
\* re.search(r'/([^/]+)/(net|java|nodejs-java|python-net)/$', href):
\* the search is anchored at the end of the href only
ProductHrefMatches(href) ==
    /\ HrefStartsWithSlash(href)
    /\ Len(href) >= 4
    /\ href[Len(href)] = <<>>
    /\ href[Len(href) - 1] \in PlatformTokens
    /\ href[Len(href) - 2] # <<>>

\* match.group(1).lower() and match.group(2)
MatchProduct(href) == Lower(href[Len(href) - 2])
MatchPlatformUrl(href) == href[Len(href) - 1]

-----------------------------------------------------------------------------
(* Findings.  Each error string of the code is a template filled with a    *)
(* product name, a platform key and a detail: the record keeps the         *)
(* template's name and the values filled in.                               *)

Err(kind, product, platform, detail) ==
    [kind |-> kind, product |-> product, platform |-> platform, detail |-> detail]

\* the empty dict
EmptyDict == <<>>

\* d[k] = v on a dict held as a function
DictSet(d, k, v) == [x \in DOMAIN d \cup {k} |-> IF x = k THEN v ELSE d[x]]

\* concatenation of a sequence of sequences
RECURSIVE Flatten(_)
Flatten(ss) == IF ss = <<>> THEN <<>> ELSE Head(ss) \o Flatten(Tail(ss))

\* the first variation that is a key of d, or <<>> (no slug is empty here)
RECURSIVE FirstIn(_, _)
FirstIn(vs, keys) ==
    IF vs = <<>> THEN <<>>
    ELSE IF Head(vs) \in keys THEN Head(vs)
    ELSE FirstIn(Tail(vs), keys)

AnyIn(vs, keys) == \E i \in 1..Len(vs) : vs[i] \in keys

-----------------------------------------------------------------------------
(* The landing page scraper.  An anchor is [href, inItem]: inItem says     *)
(* the <a> is a descendant of a <div class="product-item">.                *)

\* a scraper that lets a later anchor overwrite the entry of its slug
RECURSIVE FindProductFamilyLinksLastWins(_, _)
FindProductFamilyLinksLastWins(anchors, acc) ==
    IF anchors = <<>> THEN acc
    ELSE LET a == Head(anchors)
             product_name == Lower(a.href[2])
         IN  IF a.inItem /\ IsFamilyHref(a.href)
             THEN FindProductFamilyLinksLastWins(Tail(anchors),
                                                 DictSet(acc, product_name, a.href))
             ELSE FindProductFamilyLinksLastWins(Tail(anchors), acc)

\* the loop body of find_product_family_links: first occurrence wins
RECURSIVE FindProductFamilyLinks(_, _)
FindProductFamilyLinks(anchors, acc) ==
    IF anchors = <<>> THEN acc
    ELSE LET a == Head(anchors)
             product_name == Lower(a.href[2])
         IN  IF a.inItem /\ IsFamilyHref(a.href) /\ product_name \notin DOMAIN acc
             THEN FindProductFamilyLinks(Tail(anchors),
                                         DictSet(acc, product_name, a.href))
             ELSE FindProductFamilyLinks(Tail(anchors), acc)

\* the loop body of find_individual_product_links: first occurrence wins
RECURSIVE FindIndividualProductLinks(_, _)
FindIndividualProductLinks(anchors, acc) ==
    IF anchors = <<>> THEN acc
    ELSE LET href == Head(anchors).href
         IN  IF ProductHrefMatches(href)
             THEN LET product_name == MatchProduct(href)
                      platform == PlatformOfToken(MatchPlatformUrl(href))
                      acc1 == IF product_name \in DOMAIN acc
                              THEN acc
                              ELSE DictSet(acc, product_name, EmptyDict)
                      acc2 == IF platform \in DOMAIN acc1[product_name]
                              THEN acc1
                              ELSE DictSet(acc1, product_name,
                                           DictSet(acc1[product_name], platform, href))
                  IN  FindIndividualProductLinks(Tail(anchors), acc2)
             ELSE FindIndividualProductLinks(Tail(anchors), acc)

\* found_links holds urljoin(base_url, href) where the local dict holds href
FullUrls(links) == [k \in DOMAIN links |-> UrlJoin(BaseUrl, links[k])]
FullUrls2(links) == [k \in DOMAIN links |-> FullUrls(links[k])]

-----------------------------------------------------------------------------
(* The cross-reference validator.                                          *)

\* "for variation in variations: if variation in individual_links:
\*      if platform_slug in individual_links[variation]"
LinkFound(vs, individual_links, platform_slug) ==
    \E i \in 1..Len(vs) :
        /\ vs[i] \in DOMAIN individual_links
        /\ platform_slug \in DOMAIN individual_links[vs[i]]

\* the inner loop over platforms.items()
RECURSIVE LandingPlatformErrors(_, _, _, _)
LandingPlatformErrors(product_name, platforms, vs, individual_links) ==
    IF platforms = <<>> THEN <<>>
    ELSE LET p == Head(platforms)
             rest == LandingPlatformErrors(product_name, Tail(platforms), vs,
                                           individual_links)
         IN  IF p.version = None THEN rest
             ELSE IF LinkFound(vs, individual_links, GetPlatformSlug(p.key))
                  THEN rest
                  ELSE <<Err("landing_missing_platform", product_name, p.key, <<>>)>>
                       \o rest

\* a validator that reports missing platform links only
LandingProductErrorsPlatformsOnly(entry, family, individual_links) ==
    LandingPlatformErrors(entry.name, entry.platforms,
                          GetProductNameVariations(entry.name), individual_links)

\* one iteration of the loop over products_data.items()
LandingProductErrors(entry, family, individual_links) ==
    LET vs == GetProductNameVariations(entry.name)
        familyErr == IF AnyIn(vs, DOMAIN family) THEN <<>>
                     ELSE <<Err("landing_missing_family", entry.name, <<>>, vs)>>
    IN  familyErr \o LandingPlatformErrors(entry.name, entry.platforms, vs,
                                           individual_links)

-----------------------------------------------------------------------------
(* Responses.  A response is [raises, status, len, anchors, text]:         *)
(* raises says where an exception is raised ("get": by requests.get,       *)
(* "parse": after the body checks, "none"), status the HTTP status, len    *)
(* len(response.text.strip()), anchors the <a href> elements of the body   *)
(* in document order, text the exception's text.                           *)

MinContentLen == 100

\* Response.raise_for_status(): HTTPError for 4xx and 5xx
RaisesForStatus(status) == status >= 400 /\ status < 600

\* A plausible slip: only the empty body is refused.
ContentTooShortOnlyEmpty(len) == len = 0

\* "not content or len(content.strip()) < 100"
ContentTooShort(len) == len = 0 \/ len < MinContentLen

NoSoup == [parsed |-> FALSE, anchors |-> <<>>]

\* parse_landing_page: the soup (or None) and what it appends to self.errors
ParseLandingPage(resp) ==
    IF resp.raises # "none" \/ RaisesForStatus(resp.status)
    THEN [soup |-> NoSoup,
          errors |-> <<Err("landing_exception", <<>>, <<>>, resp.text)>>]
    ELSE IF resp.status # 200
    THEN [soup |-> NoSoup,
          errors |-> <<Err("landing_status", <<>>, <<>>, resp.status)>>]
    ELSE IF ContentTooShort(resp.len)
    THEN [soup |-> NoSoup,
          errors |-> <<Err("landing_short", <<>>, <<>>, <<>>)>>]
    ELSE [soup |-> [parsed |-> TRUE, anchors |-> resp.anchors], errors |-> <<>>]

\* A plausible slip: run() going on without a soup.
LandingIsFatalNever(s) == FALSE

\* "if soup is None: return False" in run()
LandingIsFatal(s) == ~s.parsed

-----------------------------------------------------------------------------
(* The family page validator.                                              *)

\* the loop over all_links of a family page: a later anchor overwrites
RECURSIVE FoundPlatformLinks(_, _, _)
FoundPlatformLinks(anchors, vs, acc) ==
    IF anchors = <<>> THEN acc
    ELSE LET href == Head(anchors).href
         IN  IF /\ ProductHrefMatches(href)
                /\ \E i \in 1..Len(vs) : vs[i] = MatchProduct(href)
             THEN FoundPlatformLinks(
                      Tail(anchors), vs,
                      DictSet(acc, PlatformOfToken(MatchPlatformUrl(href)),
                              UrlJoin(BaseUrl, href)))
             ELSE FoundPlatformLinks(Tail(anchors), vs, acc)

\* "Determine expected URL pattern"
ExpectedUrlSlug(platform) ==
    IF platform = pPythonNet THEN pPythonNet
    ELSE IF platform = pNodejsJava THEN pNodejsJava
    ELSE GetPlatformSlug(platform)

\* "Check if all expected platforms have links"
RECURSIVE FamilyPlatformErrors(_, _, _, _)
FamilyPlatformErrors(product_name, platforms, vs, found) ==
    IF platforms = <<>> THEN <<>>
    ELSE LET p == Head(platforms)
             rest == FamilyPlatformErrors(product_name, Tail(platforms), vs, found)
         IN  IF p.version = None THEN rest
             ELSE IF GetPlatformSlug(p.key) \in DOMAIN found THEN rest
                  ELSE <<Err("family_missing_platform", product_name, p.key,
                             <<vs[1], ExpectedUrlSlug(p.key)>>)>> \o rest

NoValidation == [stored |-> FALSE, url |-> NoUrl, found_platform_links |-> EmptyDict]

\* A plausible slip: the except clause swallowing the exception.
FamilyExceptionErrorsNone(product_name, text) == <<>>

\* "except Exception as e: self.errors.append(...)"
FamilyExceptionErrors(product_name, text) ==
    <<Err("family_exception", product_name, <<>>, text)>>

\* the two "continue" branches of the try block
FamilyPageStops(status, len) == status # 200 \/ ContentTooShort(len)

\* the error of the "continue" branch taken
FamilyPageStopErrors(product_name, family_url, resp) ==
    IF resp.status # 200
    THEN <<Err("family_status", product_name, <<>>,
               [status |-> resp.status, url |-> family_url])>>
    ELSE <<Err("family_short", product_name, <<>>, [url |-> family_url])>>

\* the try block for one product whose family_url is set: what it appends to
\* self.errors and what it stores in family_page_validations
FamilyPageResult(entry, family_url, resp) ==
    LET vs == GetProductNameVariations(entry.name)
        found == FoundPlatformLinks(resp.anchors, vs, EmptyDict)
    IN  IF resp.raises = "get"
        THEN [errors |-> FamilyExceptionErrors(entry.name, resp.text),
              validation |-> NoValidation]
        ELSE IF FamilyPageStops(resp.status, resp.len)
        THEN [errors |-> FamilyPageStopErrors(entry.name, family_url, resp),
              validation |-> NoValidation]
        ELSE IF resp.raises = "parse"
        THEN [errors |-> FamilyExceptionErrors(entry.name, resp.text),
              validation |-> NoValidation]
        ELSE [errors |-> FamilyPlatformErrors(entry.name, entry.platforms, vs, found),
              validation |-> [stored |-> TRUE, url |-> family_url,
                              found_platform_links |-> found]]

\* "Find family page URL": the first variation with a family link, or None
FamilyUrlOf(product_name, links) ==
    LET v == FirstIn(GetProductNameVariations(product_name), DOMAIN links)
    IN  IF v = <<>> THEN NoUrl ELSE links[v]

\* the products validate_family_pages fetches a page for
FamilyTargets(entries, links) ==
    {entries[i].name : i \in {j \in 1..Len(entries) :
                                FamilyUrlOf(entries[j].name, links) # NoUrl}}

\* the loop of validate_family_pages, resps giving each fetched product's response
RECURSIVE FamilyLoop(_, _, _)
FamilyLoop(entries, links, resps) ==
    IF entries = <<>>
    THEN [errors |-> <<>>, validations |-> EmptyDict, log |-> <<>>]
    ELSE LET e == Head(entries)
             url == FamilyUrlOf(e.name, links)
             rest == FamilyLoop(Tail(entries), links, resps)
         IN  IF url = NoUrl THEN rest
             ELSE LET r == FamilyPageResult(e, url, resps[e.name])
                  IN  [errors |-> r.errors \o rest.errors,
                       validations |->
                           IF r.validation.stored
                           THEN DictSet(rest.validations, e.name, r.validation)
                           ELSE rest.validations,
                       log |-> <<[stage |-> "family", product |-> e.name,
                                  url |-> url]>> \o rest.log]

-----------------------------------------------------------------------------
(* The reporter.                                                           *)

\* validate_link: (status_code, is_valid) for what the GET gave
ValidateLink(resp) ==
    IF resp.raises # "none"
    THEN [status_code |-> 0, is_valid |-> FALSE]
    ELSE [status_code |-> resp.status,
          is_valid |-> resp.status = 200 /\ resp.len # 0 /\ resp.len >= MinContentLen]

\* A plausible slip: a failed probe recorded as a finding.
ValidateLinkErrorsRecorded(url, resp) ==
    IF ValidateLink(resp).is_valid THEN <<>>
    ELSE <<Err("link_invalid", <<>>, <<>>, url)>>

\* what validate_link appends to self.errors: it has no such statement
ValidateLinkErrors(url, resp) == <<>>

\* the canonical platforms of the non-null versions of one product
RECURSIVE DeclaredPlatforms(_)
DeclaredPlatforms(platforms) ==
    IF platforms = <<>> THEN {}
    ELSE (IF Head(platforms).version = None THEN {}
          ELSE {GetPlatformSlug(Head(platforms).key)})
         \cup DeclaredPlatforms(Tail(platforms))

\* the platforms of the links found on the landing page
ObservedPlatforms(plinks) == UNION {DOMAIN plinks[s] : s \in DOMAIN plinks}

\* A plausible slip: the columns taken from the manifest alone.
AllPlatformsManifestOnly(entries, plinks) ==
    UNION {DeclaredPlatforms(entries[i].platforms) : i \in 1..Len(entries)}

\* all_platforms of generate_markdown_report
AllPlatforms(entries, plinks) ==
    ObservedPlatforms(plinks)
    \cup UNION {DeclaredPlatforms(entries[i].platforms) : i \in 1..Len(entries)}

PlatformOrder == <<pNet, pJava, pNodejs, pPython>>

\* platform_order.index(x) if x in platform_order else 999
OrderIndex(x) ==
    IF \E i \in 1..Len(PlatformOrder) : PlatformOrder[i] = x
    THEN (CHOOSE i \in 1..Len(PlatformOrder) : PlatformOrder[i] = x) - 1
    ELSE 999

\* the order of the sort key (index-or-999, x)
PlatformKeyLess(x, y) ==
    \/ OrderIndex(x) < OrderIndex(y)
    \/ OrderIndex(x) = OrderIndex(y) /\ StrLess(x, y)

\* sorted(all_platforms, key=...)
RECURSIVE SortPlatforms(_)
SortPlatforms(S) ==
    IF S = {} THEN <<>>
    ELSE LET m == CHOOSE x \in S : \A y \in S \ {x} : PlatformKeyLess(x, y)
         IN  <<m>> \o SortPlatforms(S \ {m})

\* sorted(self.products_data.keys())
RECURSIVE SortNames(_)
SortNames(S) ==
    IF S = {} THEN <<>>
    ELSE LET m == CHOOSE x \in S : \A y \in S \ {x} : StrLess(x, y)
         IN  <<m>> \o SortNames(S \ {m})

ProductNames(entries) == {entries[i].name : i \in 1..Len(entries)}

EntryOf(entries, name) == entries[CHOOSE i \in 1..Len(entries) : entries[i].name = name]

\* the URL a table cell or a JSON value shows for (product, platform): that of
\* the first variation that has the platform in product_links, or None
RECURSIVE PlatformUrlOf(_, _, _)
PlatformUrlOf(vs, plinks, platform) ==
    IF vs = <<>> THEN NoUrl
    ELSE IF Head(vs) \in DOMAIN plinks /\ platform \in DOMAIN plinks[Head(vs)]
         THEN plinks[Head(vs)][platform]
         ELSE PlatformUrlOf(Tail(vs), plinks, platform)

\* the URL of the cell in column col (kFamily, or a platform) of a product's row
CellUrl(product_name, col, flinks, plinks) ==
    IF col = kFamily THEN FamilyUrlOf(product_name, flinks)
    ELSE PlatformUrlOf(GetProductNameVariations(product_name), plinks, col)

\* the cells validate_link is called for, as <<product, column>>
ProbedCells(entries, flinks, plinks) ==
    IF AllPlatforms(entries, plinks) = {} THEN {}
    ELSE {c \in ProductNames(entries) \X ({kFamily} \cup AllPlatforms(entries, plinks)) :
             CellUrl(c[1], c[2], flinks, plinks) # NoUrl}

\* one cell: blank, a check mark, or the status code
Cell(product_name, col, flinks, plinks, probes) ==
    LET url == CellUrl(product_name, col, flinks, plinks)
    IN  IF url = NoUrl THEN [shows |-> "blank", code |-> 0, url |-> NoUrl]
        ELSE LET v == ValidateLink(probes[<<product_name, col>>])
             IN  IF v.is_valid THEN [shows |-> "check", code |-> 0, url |-> url]
                 ELSE [shows |-> "status", code |-> v.status_code, url |-> url]

\* one row of the table
Row(product_name, cols, flinks, plinks, probes) ==
    [product |-> product_name,
     family |-> Cell(product_name, kFamily, flinks, plinks, probes),
     platforms |-> [i \in 1..Len(cols) |->
                       Cell(product_name, cols[i], flinks, plinks, probes)]]

\* the GETs of one row, in the order the row is built
RowLog(product_name, cols, flinks, plinks) ==
    LET all == <<kFamily>> \o cols
        hit(i) == CellUrl(product_name, all[i], flinks, plinks) # NoUrl
        one(i) == IF hit(i)
                  THEN <<[stage |-> "liveness", product |-> product_name,
                          url |-> CellUrl(product_name, all[i], flinks, plinks)]>>
                  ELSE <<>>
    IN  Flatten([i \in 1..Len(all) |-> one(i)])

\* what the probes of one row append to self.errors
RowErrors(product_name, cols, flinks, plinks, probes) ==
    LET all == <<kFamily>> \o cols
        one(i) == IF CellUrl(product_name, all[i], flinks, plinks) # NoUrl
                  THEN ValidateLinkErrors(CellUrl(product_name, all[i], flinks, plinks),
                                          probes[<<product_name, all[i]>>])
                  ELSE <<>>
    IN  Flatten([i \in 1..Len(all) |-> one(i)])

\* sum(len(platforms) for platforms in product_links.values())
CountProductLinks(plinks) ==
    Cardinality({c \in (DOMAIN plinks) \X ObservedPlatforms(plinks) :
                    c[2] \in DOMAIN plinks[c[1]]})

NoReport == [written |-> FALSE]
NoJson == [written |-> FALSE]


\* A plausible slip: the canonical key written instead of the manifest's.
JsonPlatformKeyCanonical(platform_slug, platform) == platform_slug

\* platform_key_map.get(platform_slug, platform)
JsonPlatformKey(platform_slug, platform) ==
    CASE platform_slug = pNet -> pNet
      [] platform_slug = pJava -> pJava
      [] platform_slug = pNodejs -> pNodejsJava
      [] platform_slug = pPython -> pPythonNet
      [] OTHER -> platform

\* the loop over platforms.items() of generate_json_output
RECURSIVE JsonPlatformLinks(_, _, _, _)
JsonPlatformLinks(platforms, vs, plinks, acc) ==
    IF platforms = <<>> THEN acc
    ELSE LET p == Head(platforms)
             platform_slug == GetPlatformSlug(p.key)
         IN  IF p.version = None
             THEN JsonPlatformLinks(Tail(platforms), vs, plinks, acc)
             ELSE JsonPlatformLinks(
                      Tail(platforms), vs, plinks,
                      DictSet(acc, JsonPlatformKey(platform_slug, p.key),
                              PlatformUrlOf(vs, plinks, platform_slug)))

\* output_data["links"][product_name]
JsonProductLinks(entry, flinks, plinks) ==
    LET family_url == FamilyUrlOf(entry.name, flinks)
        start == IF family_url # NoUrl THEN DictSet(EmptyDict, kFamily, family_url)
                 ELSE EmptyDict
    IN  JsonPlatformLinks(entry.platforms, GetProductNameVariations(entry.name),
                          plinks, start)

\* output_data["links"]
JsonLinks(entries, flinks, plinks) ==
    [n \in ProductNames(entries) |->
        JsonProductLinks(EntryOf(entries, n), flinks, plinks)]

-----------------------------------------------------------------------------
(* The inputs: what the three kinds of GET may give.                       *)

MaxProducts == 2
MaxAnchors == 2

sTotal == <<"T","o","t","a","l">>
sViewer == <<"V","i","e","w","e","r">>
sEditor == <<"E","d","i","t","o","r">>
sConversion == <<"C","o","n","v","e","r","s","i","o","n">>
sAspose == <<"A","s","p","o","s","e">>

nTotal == GroupDocsDot \o sTotal
nViewer == GroupDocsDot \o sViewer
nViewerUI == GroupDocsDot \o sViewer \o <<"-","U","I">>
nViewerDotUi == GroupDocsDot \o sViewer \o <<".","u","i">>
nTotalCli == GroupDocsDot \o sTotal \o <<"-","C","l","i">>

Version == "24.1"
kGo == <<"g","o">>
kCpp == <<"c","p","p">>

Plat(key, version) == [key |-> key, version |-> version]

\* the scenario of the documentation: net and java offered, python-net null
pmNetJava == <<Plat(pNet, Version), Plat(pJava, Version), Plat(pPythonNet, None)>>
pmNet == <<Plat(pNodejsJava, None), Plat(pNet, Version)>>
\* a compound key, and keys outside the four-token vocabulary
pmMixed == <<Plat(kGo, Version), Plat(pPythonNet, Version), Plat(kCpp, Version),
             Plat(pNodejsJava, None)>>

Entry(name, platforms) == [name |-> name, platforms |-> platforms]

ManifestEntries ==
    {Entry(nTotal, pm) : pm \in {pmNetJava, pmNet}}
    \cup {Entry(nViewer, pm) : pm \in {pmMixed}}
    \cup {Entry(n, pmNetJava) : n \in {nViewerUI, nViewerDotUi, nTotalCli}}

\* a JSON object has each key once
Manifests ==
    {m \in UNION {[1..n -> ManifestEntries] : n \in 0..MaxProducts} :
        \A i, j \in 1..Len(m) : i # j => m[i].name # m[j].name}

Resp(raises, status, len, anchors, text) ==
    [raises |-> raises, status |-> status, len |-> len, anchors |-> anchors,
     text |-> text]

ManifestResponses ==
    {[raises |-> TRUE, versions |-> <<>>, text |-> "bad manifest"]}
    \cup {[raises |-> FALSE, versions |-> m, text |-> ""] : m \in Manifests}

Href1(seg) == << <<>>, seg, <<>> >>
Href2(seg, token) == << <<>>, seg, token, <<>> >>
Anchor(href, inItem) == [href |-> href, inItem |-> inItem]

sDocs == <<"d","o","c","s">>

LandingAnchors ==
    { Anchor(Href1(Lower(sTotal)), TRUE),
      Anchor(Href1(Lower(sTotal)), FALSE),
      Anchor(Href1(sTotal), TRUE),
      Anchor(Href1(Lower(sViewer)), TRUE),
      Anchor(Href2(Lower(sTotal), pNet), TRUE),
      Anchor(Href2(sTotal, pJava), FALSE),
      Anchor(<< <<>>, sDocs, Lower(sTotal), pNet, <<>> >>, FALSE),
      Anchor(Href2(Lower(sViewer), pPythonNet), FALSE),
      Anchor(<<Lower(sTotal), pNet, <<>> >>, FALSE) }

LandingPages == UNION {[1..n -> LandingAnchors] : n \in 0..MaxAnchors}

LandingResponses ==
    { Resp("get", 0, 0, <<>>, "timeout"),
      Resp("none", 404, 150, <<>>, "404 Client Error"),
      Resp("none", 204, 0, <<>>, ""),
      Resp("none", 200, 0, <<>>, ""),
      Resp("none", 200, MinContentLen - 1, <<>>, "") }
    \cup {Resp("none", 200, MinContentLen, page, "") : page \in LandingPages}

FamilyBodies ==
    { <<Anchor(Href2(Lower(sTotal), pNet), FALSE)>>,
      <<Anchor(Href2(Lower(sTotal), pNet), FALSE),
        Anchor(Href2(Lower(sTotal), pJava), FALSE)>>,
      <<Anchor(Href2(Lower(sTotal), pPythonNet), FALSE),
        Anchor(Href2(sViewer, pPythonNet), FALSE)>> }

FamilyResponses ==
    { Resp("get", 0, 0, <<>>, "timeout"),
      Resp("none", 404, 150, <<>>, ""),
      Resp("none", 200, MinContentLen - 1, <<>>, ""),
      Resp("parse", 200, MinContentLen, <<>>, "bad markup") }
    \cup {Resp("none", 200, MinContentLen, body, "") : body \in FamilyBodies}

ProbeResponses ==
    { Resp("get", 0, 0, <<>>, "timeout"),
      Resp("none", 500, 150, <<>>, ""),
      Resp("none", 200, MinContentLen - 1, <<>>, ""),
      Resp("none", 200, MinContentLen, <<>>, "") }

-----------------------------------------------------------------------------
(* The pipeline: main() and run().                                         *)

PipelineInit ==
    /\ pc = "start"
    /\ manifestResp = [raises |-> FALSE, versions |-> <<>>, text |-> ""]
    /\ products_data = <<>>
    /\ errors = <<>>
    /\ warnings = <<>>
    /\ landingResp = Resp("none", 0, 0, <<>>, "")
    /\ soup = NoSoup
    /\ family_links = EmptyDict
    /\ product_links = EmptyDict
    /\ family_page_validations = EmptyDict
    /\ familyResp = EmptyDict
    /\ requestLog = <<>>
    /\ reportFile = NoReport
    /\ jsonFile = NoJson
    /\ success = FALSE
    /\ exitCode = -1
    /\ stages = <<>>

Init ==
    /\ PipelineInit
    /\ rawName = <<>>
    /\ normalized = <<>>
    /\ variations = <<>>
    /\ npc = "idle"

\* fetch_json: self.products_data, what it appends to self.errors, what it returns
FetchJsonResult(resp) ==
    IF resp.raises
    THEN [products_data |-> <<>>,
          errors |-> <<Err("json_exception", <<>>, <<>>, resp.text)>>,
          returned |-> <<>>]
    ELSE LET kept == SelectSeq(resp.versions,
                               LAMBDA e : ~ShouldIgnoreProduct(e.name))
         IN  [products_data |-> kept, errors |-> <<>>, returned |-> kept]

\* "if not self.fetch_json(): return False": an empty dict is falsy
ManifestIsFatal(returned) == Len(returned) = 0

FetchJson ==
    /\ pc = "start"
    /\ \E resp \in ManifestResponses :
          LET r == FetchJsonResult(resp)
          IN  /\ manifestResp' = resp
              /\ products_data' = r.products_data
              /\ errors' = errors \o r.errors
              /\ IF ManifestIsFatal(r.returned)
                 THEN pc' = "returned" /\ success' = FALSE
                 ELSE pc' = "landing" /\ UNCHANGED success
    /\ stages' = Append(stages, "fetch_json")
    /\ UNCHANGED <<warnings, landingResp, soup, family_links, product_links,
                   family_page_validations, familyResp, requestLog, reportFile,
                   jsonFile, exitCode, normVars>>

FetchLandingPage ==
    /\ pc = "landing"
    /\ \E resp \in LandingResponses :
          LET r == ParseLandingPage(resp)
          IN  /\ landingResp' = resp
              /\ soup' = r.soup
              /\ errors' = errors \o r.errors
              /\ IF LandingIsFatal(r.soup)
                 THEN pc' = "returned" /\ success' = FALSE
                 ELSE pc' = "validate" /\ UNCHANGED success
    /\ stages' = Append(stages, "parse_landing_page")
    /\ UNCHANGED <<manifestResp, products_data, warnings, family_links,
                   product_links, family_page_validations, familyResp, requestLog,
                   reportFile, jsonFile, exitCode, normVars>>

ValidateLandingPageProducts ==
    /\ pc = "validate"
    /\ LET family == FindProductFamilyLinks(soup.anchors, EmptyDict)
           individual_links == FindIndividualProductLinks(soup.anchors, EmptyDict)
       IN  /\ family_links' = FullUrls(family)
           /\ product_links' = FullUrls2(individual_links)
           /\ errors' = errors \o
                 Flatten([i \in 1..Len(products_data) |->
                     LandingProductErrors(products_data[i], family, individual_links)])
    /\ pc' = "family"
    /\ stages' = Append(stages, "validate_landing_page_products")
    /\ UNCHANGED <<manifestResp, products_data, warnings, landingResp, soup,
                   family_page_validations, familyResp, requestLog, reportFile,
                   jsonFile, success, exitCode, normVars>>

ValidateFamilyPages ==
    /\ pc = "family"
    /\ \E resps \in [FamilyTargets(products_data, family_links) -> FamilyResponses] :
          LET r == FamilyLoop(products_data, family_links, resps)
          IN  /\ familyResp' = resps
              /\ errors' = errors \o r.errors
              /\ family_page_validations' = r.validations
              /\ requestLog' = requestLog \o r.log
    /\ pc' = "report"
    /\ stages' = Append(stages, "validate_family_pages")
    /\ UNCHANGED <<manifestResp, products_data, warnings, landingResp, soup,
                   family_links, product_links, reportFile, jsonFile, success,
                   exitCode, normVars>>

GenerateMarkdownReport ==
    /\ pc = "report"
    /\ \E cols \in {SortPlatforms(AllPlatforms(products_data, product_links))} :
       \E names \in {IF cols = <<>> THEN <<>>
                     ELSE SortNames(ProductNames(products_data))} :
       \E probes \in [ProbedCells(products_data, family_links, product_links)
                        -> ProbeResponses] :
       \E rowErrors \in {Flatten([i \in 1..Len(names) |->
                            RowErrors(names[i], cols, family_links, product_links,
                                      probes)])} :
          /\ requestLog' = requestLog \o
                 Flatten([i \in 1..Len(names) |->
                     RowLog(names[i], cols, family_links, product_links)])
          /\ errors' = errors \o rowErrors
          /\ reportFile' =
                 [written |-> TRUE,
                  nProducts |-> Len(products_data),
                  nFamilyLinks |-> Cardinality(DOMAIN family_links),
                  nProductLinks |-> CountProductLinks(product_links),
                  nErrors |-> Len(errors),
                  nWarnings |-> Len(warnings),
                  columns |-> cols,
                  rows |-> [i \in 1..Len(names) |->
                               Row(names[i], cols, family_links, product_links,
                                   probes)],
                  errors |-> errors \o rowErrors,
                  warnings |-> warnings]
    /\ pc' = "json"
    /\ stages' = Append(stages, "generate_markdown_report")
    /\ UNCHANGED <<manifestResp, products_data, warnings, landingResp, soup,
                   family_links, product_links, family_page_validations, familyResp,
                   jsonFile, success, exitCode, normVars>>

GenerateJsonOutput ==
    /\ pc = "json"
    /\ jsonFile' = [written |-> TRUE,
                    links |-> JsonLinks(products_data, family_links, product_links)]
    \* "return len(self.errors) == 0"
    /\ success' = (Len(errors) = 0)
    /\ pc' = "returned"
    /\ stages' = Append(stages, "generate_json_output")
    /\ UNCHANGED <<manifestResp, products_data, errors, warnings, landingResp, soup,
                   family_links, product_links, family_page_validations, familyResp,
                   requestLog, reportFile, exitCode, normVars>>

\* "sys.exit(0 if success else 1)"
Exit ==
    /\ pc = "returned"
    /\ exitCode' = IF success THEN 0 ELSE 1
    /\ pc' = "exited"
    /\ UNCHANGED <<manifestResp, products_data, errors, warnings, landingResp, soup,
                   family_links, product_links, family_page_validations, familyResp,
                   requestLog, reportFile, jsonFile, success, stages, normVars>>

Next ==
    \/ FetchJson
    \/ FetchLandingPage
    \/ ValidateLandingPageProducts
    \/ ValidateFamilyPages
    \/ GenerateMarkdownReport
    \/ GenerateJsonOutput
    \/ Exit

Spec == Init /\ [][Next]_vars

-----------------------------------------------------------------------------
(* The name normalizer on its own: a raw name is drawn, normalized, and    *)
(* its variations listed.                                                  *)

NamePrefixes == {<<>>, GroupDocsDot, Lower(GroupDocsDot), sAspose \o Dot \o GroupDocsDot,
                 GroupDocsDot \o GroupDocsDot}
NameStems == {sTotal, sConversion, sEditor, sViewer \o Dot \o sTotal}
NameSuffixes == {<<>>, <<"-","U","I">>, DashUi, <<".","U","i">>, <<"-","C","L","I">>,
                 DashCli}

RawNames == {p \o st \o su : p \in NamePrefixes, st \in NameStems, su \in NameSuffixes}

NormInit ==
    /\ PipelineInit
    /\ rawName \in RawNames
    /\ normalized = <<>>
    /\ variations = <<>>
    /\ npc = "raw"

Normalize ==
    /\ npc = "raw"
    /\ normalized' = NormalizeProductName(rawName)
    /\ npc' = "normalized"
    /\ UNCHANGED <<rawName, variations, pipelineVars>>

ListVariations ==
    /\ npc = "normalized"
    /\ variations' = GetProductNameVariations(rawName)
    /\ npc' = "listed"
    /\ UNCHANGED <<rawName, normalized, pipelineVars>>

NormNext == Normalize \/ ListVariations

NormSpec == NormInit /\ [][NormNext]_vars

-----------------------------------------------------------------------------
(* Properties.                                                             *)

Ran(stage) == \E i \in 1..Len(stages) : stages[i] = stage

Count(seq, P(_)) == Cardinality({i \in 1..Len(seq) : P(seq[i])})

\* C1: when the process has exited, its exit status is 0 if and only if the
\* error list is empty; in particular it never exits non-zero with an empty
\* error list.
C1_ExitZeroIffNoErrors ==
    pc = "exited" => (exitCode = 0 <=> errors = <<>>)

\* what the GET of the manifest gave makes fetch_json fail
ManifestFailed == Ran("fetch_json") /\ manifestResp.raises

\* what the GET of the landing page gave is an exception, a status other than
\* 200, or a body of fewer than 100 characters once trimmed
LandingFailed ==
    /\ Ran("parse_landing_page")
    /\ \/ landingResp.raises # "none"
       \/ landingResp.status # 200
       \/ landingResp.len < 100

LaterStages ==
    {"validate_landing_page_products", "validate_family_pages",
     "generate_markdown_report", "generate_json_output"}

\* C2: once the manifest fetch or the landing page fetch has failed, run() has
\* returned, no later stage has run or ever runs (no cross-reference
\* validation, no family page GET, no liveness GET, neither file written), and
\* the process exits with a non-zero status.
C2_FatalFetchSkipsLaterStages ==
    (ManifestFailed \/ LandingFailed) =>
        /\ pc \in {"returned", "exited"}
        /\ \A st \in LaterStages : ~Ran(st)
        /\ ManifestFailed => ~Ran("parse_landing_page")
        /\ requestLog = <<>>
        /\ ~reportFile.written
        /\ ~jsonFile.written
        /\ errors # <<>>
        /\ ~success
        /\ pc = "exited" => exitCode = 1

\* a run that ended on a landing page whose body was one character too short
C2_Witness ==
    /\ pc = "exited"
    /\ LandingFailed
    /\ landingResp.status = 200
    /\ landingResp.len = 99

\* the canonical slug as the documentation words it: the leading "GroupDocs."
\* stripped, lowercased, every "." replaced by "-"
ClaimedCanonicalSlug(name) ==
    LET stripped == IF StartsWith(name, GroupDocsDot)
                    THEN SubSeq(name, Len(GroupDocsDot) + 1, Len(name))
                    ELSE name
    IN  [i \in 1..Len(stripped) |->
            IF stripped[i] = "." THEN "-" ELSE LowerChar(stripped[i])]

ClaimedVariations(name) ==
    LET c == ClaimedCanonicalSlug(name)
    IN  <<c>>
        \o (IF EndsWith(c, DashUi) THEN <<SubSeq(c, 1, Len(c) - 3)>> ELSE <<>>)
        \o (IF EndsWith(c, DashCli) THEN <<SubSeq(c, 1, Len(c) - 4)>> ELSE <<>>)

\* C10: for every raw product name, get_product_name_variations returns the
\* canonical slug (leading "GroupDocs." stripped, lowercased, "." replaced by
\* "-"), then the slug without a trailing "-ui", then the slug without a
\* trailing "-cli", and nothing else.
C10_VariationsAsDocumented ==
    npc = "listed" => variations = ClaimedVariations(rawName)


\* the landing page has an anchor whose href is exactly /<segment>/<token>/,
\* the segment being the slug (in any letter case)
TwoSegmentAnchor(slug, token) ==
    \E i \in 1..Len(soup.anchors) :
        LET h == soup.anchors[i].href
        IN  /\ Len(h) = 4
            /\ h[1] = <<>>
            /\ Lower(h[2]) = slug
            /\ h[3] = token
            /\ h[4] = <<>>

AnchorForProduct(name, key) ==
    LET vs == GetProductNameVariations(name)
    IN  \E i \in 1..Len(vs) : TwoSegmentAnchor(vs[i], key)

MissingOnLanding(name, key) ==
    Count(errors, LAMBDA e : /\ e.kind = "landing_missing_platform"
                             /\ e.product = name
                             /\ e.platform = key)

\* C3: after validate_landing_page_products, for every validated product and
\* every platform of it: with a null version there is no "missing on the landing
\* page" error for the pair; with a non-null version there is exactly one such
\* error if the page has no anchor /slug/platform-token/ for any slug variation
\* of the product, and none if it has one, whether or not the family link was
\* found.
C3_LandingErrorIffNoAnchor ==
    Ran("validate_landing_page_products") =>
        \A i \in 1..Len(products_data) :
            \A j \in 1..Len(products_data[i].platforms) :
                LET name == products_data[i].name
                    p == products_data[i].platforms[j]
                IN  MissingOnLanding(name, p.key) =
                        (IF p.version # None /\ ~AnchorForProduct(name, p.key)
                         THEN 1 ELSE 0)

\* the raw name ends in "-cli", ".ui" or "-ui", whatever the letter case
HasIgnoredSuffix(name) ==
    \E suffix \in {DashCli, DotUi, DashUi} :
        /\ Len(name) >= Len(suffix)
        /\ \A k \in 1..Len(suffix) :
              LowerChar(name[Len(name) - Len(suffix) + k]) = suffix[k]

IgnoredInManifest ==
    {manifestResp.versions[i].name : i \in
        {j \in 1..Len(manifestResp.versions) :
            HasIgnoredSuffix(manifestResp.versions[j].name)}}

\* C4: a manifest product whose raw name ends in "-cli", ".ui" or "-ui" (in any
\* letter case) is not in products_data once the manifest is loaded, and at no
\* point of the run does an error name it, a family page GET or liveness GET go
\* out for it, a validation entry exist for it, a row of the Markdown table show
\* it, or the JSON links object have it as a key.
C4_IgnoredProductsNeverAppear ==
    \A name \in IgnoredInManifest :
        /\ \A i \in 1..Len(products_data) : products_data[i].name # name
        /\ \A i \in 1..Len(errors) : errors[i].product # name
        /\ \A i \in 1..Len(requestLog) : requestLog[i].product # name
        /\ name \notin DOMAIN familyResp
        /\ name \notin DOMAIN family_page_validations
        /\ reportFile.written =>
              \A i \in 1..Len(reportFile.rows) : reportFile.rows[i].product # name
        /\ jsonFile.written => name \notin DOMAIN jsonFile.links

\* a finished run whose manifest had an ignored product next to a validated one
C4_Witness ==
    /\ pc = "exited"
    /\ jsonFile.written
    /\ reportFile.written /\ Len(reportFile.rows) = 1
    /\ \E name \in IgnoredInManifest : EndsWith(name, <<"-","U","I">>)

FamilyStageKinds ==
    {"family_status", "family_short", "family_missing_platform", "family_exception"}

FamilyLinkFound(name) ==
    LET vs == GetProductNameVariations(name)
    IN  \E i \in 1..Len(vs) : vs[i] \in DOMAIN family_links

FamilyErrors(name) ==
    {i \in 1..Len(errors) : errors[i].kind \in FamilyStageKinds /\ errors[i].product = name}

FamilyRequests(name) ==
    Count(requestLog, LAMBDA r : r.stage = "family" /\ r.product = name)

\* the GET came back, with a status other than 200 or a body under 100 characters
Unusable(resp) ==
    /\ resp.raises = "none"
    /\ resp.status # 200 \/ resp.len < 100

\* the GET came back with status 200 and a body of at least 100 characters, and
\* nothing was raised afterwards
Usable(resp) ==
    /\ resp.raises = "none"
    /\ resp.status = 200
    /\ resp.len >= 100

\* an exception was raised by the GET, or while the page was parsed and checked
Raised(resp) ==
    \/ resp.raises = "get"
    \/ resp.raises = "parse" /\ resp.status = 200 /\ resp.len >= 100

\* C5: after validate_family_pages, a product whose family link was found and
\* whose family page came back with a status other than 200 or a body under 100
\* characters has exactly one error appended by this stage, which is the status
\* or the too-short error and not a missing-platform error, and has no
\* family_page_validations entry; and the stage went on: every product whose
\* family link was found had its family page requested exactly once.
C5_UnusableFamilyPageOneError ==
    Ran("validate_family_pages") =>
        \A i \in 1..Len(products_data) :
            LET name == products_data[i].name
            IN  FamilyLinkFound(name) =>
                    /\ FamilyRequests(name) = 1
                    /\ name \in DOMAIN familyResp
                    /\ Unusable(familyResp[name]) =>
                          /\ Cardinality(FamilyErrors(name)) = 1
                          /\ \A k \in FamilyErrors(name) :
                                errors[k].kind =
                                    (IF familyResp[name].status # 200
                                     THEN "family_status" ELSE "family_short")
                          /\ name \notin DOMAIN family_page_validations

\* two family pages were requested: the first came back 404, the second too short
C5_Witness ==
    /\ Ran("validate_family_pages")
    /\ Len(products_data) = 2
    /\ DOMAIN familyResp = {products_data[1].name, products_data[2].name}
    /\ familyResp[products_data[1].name].status = 404
    /\ Unusable(familyResp[products_data[2].name])
    /\ familyResp[products_data[2].name].len = 99

\* C6: after validate_family_pages, a product for whose family page an exception
\* was raised has exactly one error appended by this stage, which names the
\* product and carries the exception text, and every other product whose family
\* link was found was still validated: its page was requested exactly once and,
\* if usable, its validation entry is stored.
C6_FamilyExceptionIsLocal ==
    Ran("validate_family_pages") =>
        \A i \in 1..Len(products_data) :
            LET name == products_data[i].name
            IN  (FamilyLinkFound(name) /\ Raised(familyResp[name])) =>
                    /\ Cardinality(FamilyErrors(name)) = 1
                    /\ \A k \in FamilyErrors(name) :
                          /\ errors[k].kind = "family_exception"
                          /\ errors[k].detail = familyResp[name].text
                    /\ name \notin DOMAIN family_page_validations
                    /\ \A j \in 1..Len(products_data) :
                          LET other == products_data[j].name
                          IN  (j # i /\ FamilyLinkFound(other)) =>
                                  /\ FamilyRequests(other) = 1
                                  /\ Usable(familyResp[other]) =>
                                        other \in DOMAIN family_page_validations

\* the first product's page raised and the second product's page was validated
C6_Witness ==
    /\ Ran("validate_family_pages")
    /\ Len(products_data) = 2
    /\ DOMAIN familyResp = {products_data[1].name, products_data[2].name}
    /\ Raised(familyResp[products_data[1].name])
    /\ products_data[2].name \in DOMAIN family_page_validations

\* C7: the two report steps (generate_markdown_report with its liveness GETs,
\* and generate_json_output) leave the error list and the warning list as they
\* were.
C7_ReportLeavesFindings ==
    [][(pc \in {"report", "json"}) => (errors' = errors /\ warnings' = warnings)]_vars

CellsOf(row) == {row.family} \cup {row.platforms[i] : i \in 1..Len(row.platforms)}

\* a run that exited 0 although one of its liveness GETs did not give a valid page
C7_Witness ==
    /\ pc = "exited"
    /\ exitCode = 0
    /\ errors = <<>>
    /\ reportFile.written
    /\ \E i \in 1..Len(reportFile.rows) :
          \E c \in CellsOf(reportFile.rows[i]) : c.shows = "status"


\* the canonical platform of a manifest key
CanonicalOf(key) ==
    CASE key = pNodejsJava -> pNodejs
      [] key = pPythonNet -> pPython
      [] OTHER -> key

\* the manifest's version for a key, null when the key is not listed
VersionOf(entry, key) ==
    IF \E j \in 1..Len(entry.platforms) : entry.platforms[j].key = key
    THEN entry.platforms[CHOOSE j \in 1..Len(entry.platforms) :
                            entry.platforms[j].key = key].version
    ELSE None

\* the URLs discovered on the landing page for a product and a manifest key
DiscoveredUrls(name, key) ==
    LET vs == GetProductNameVariations(name)
    IN  {product_links[vs[i]][CanonicalOf(key)] :
            i \in {k \in 1..Len(vs) : /\ vs[k] \in DOMAIN product_links
                                      /\ CanonicalOf(key) \in DOMAIN product_links[vs[k]]}}

\* C8: in the JSON artifact, every validated product has an entry, and for each
\* of the four manifest keys the entry has the key with a discovered URL when the
\* version is non-null and a link was discovered, has the key with null when the
\* version is non-null and no link was discovered, and does not have the key when
\* the version is null; the canonical keys nodejs and python are never written.
C8_JsonKeysFollowManifest ==
    jsonFile.written =>
        \A i \in 1..Len(products_data) :
            LET entry == products_data[i]
            IN  /\ entry.name \in DOMAIN jsonFile.links
                /\ {pNodejs, pPython} \cap DOMAIN jsonFile.links[entry.name] = {}
                /\ \A key \in PlatformTokens :
                      LET d == jsonFile.links[entry.name]
                      IN  IF VersionOf(entry, key) = None
                          THEN key \notin DOMAIN d
                          ELSE /\ key \in DOMAIN d
                               /\ IF DiscoveredUrls(entry.name, key) = {}
                                  THEN d[key] = NoUrl
                                  ELSE d[key] \in DiscoveredUrls(entry.name, key)

\* a JSON artifact with a URL under python-net, a null under net and no java key
C8_Witness ==
    /\ jsonFile.written
    /\ \E n \in DOMAIN jsonFile.links :
          /\ pPythonNet \in DOMAIN jsonFile.links[n]
          /\ jsonFile.links[n][pPythonNet] # NoUrl
          /\ pNodejsJava \notin DOMAIN jsonFile.links[n]
    /\ \E n \in DOMAIN jsonFile.links :
          /\ pNet \in DOMAIN jsonFile.links[n]
          /\ jsonFile.links[n][pNet] = NoUrl
          /\ pJava \notin DOMAIN jsonFile.links[n]

ColumnSet == {reportFile.columns[i] : i \in 1..Len(reportFile.columns)}

\* net, java, nodejs, python first and in this order, then the others by name
ColumnBefore(x, y) ==
    LET rank(p) == CASE p = pNet -> 1 [] p = pJava -> 2 [] p = pNodejs -> 3
                     [] p = pPython -> 4 [] OTHER -> 5
    IN  \/ rank(x) < rank(y)
        \/ rank(x) = 5 /\ rank(y) = 5 /\ StrLess(x, y)

ColumnsOrdered ==
    \A i, j \in 1..Len(reportFile.columns) :
        i < j => ColumnBefore(reportFile.columns[i], reportFile.columns[j])

\* the canonical platforms the manifest declares with a non-null version
DeclaredByManifest ==
    UNION {{CanonicalOf(products_data[i].platforms[j].key) :
               j \in {k \in 1..Len(products_data[i].platforms) :
                         products_data[i].platforms[k].version # None}} :
           i \in 1..Len(products_data)}

\* C9 as first stated: the table has exactly one column per platform observed
\* among the links discovered on the landing page, in the order net, java,
\* nodejs, python, then the others alphabetically.
C9_ColumnsAreObservedPlatforms ==
    reportFile.written =>
        /\ ColumnSet = ObservedPlatforms(product_links)
        /\ ColumnsOrdered


\* C9 as amended: the table has exactly one column per platform that is observed
\* among the links discovered on the landing page or declared with a non-null
\* version by a validated manifest product (under its canonical name), in the
\* order net, java, nodejs, python, then the others alphabetically.
C9_ColumnsAreObservedOrDeclared ==
    reportFile.written =>
        /\ ColumnSet = ObservedPlatforms(product_links) \cup DeclaredByManifest
        /\ Len(reportFile.columns) = Cardinality(ColumnSet)
        /\ ColumnsOrdered

\* a table with an observed column (net), a declared one nothing was discovered
\* for (python) and two platforms outside the preferred order
C9_Witness ==
    /\ reportFile.written
    /\ reportFile.columns = <<pNet, pPython, kCpp, kGo>>
    /\ ObservedPlatforms(product_links) = {pNet}

-----------------------------------------------------------------------------
(* C11.  The found-links index is decided by the first anchor in page      *)
(* order.  Which anchors the scraper takes for a slug or a pair is the     *)
(* scraper's own matching; what is stated here is which of them wins.      *)

\* the anchors of the fetched page, in page order
PageAnchors == landingResp.anchors

\* anchor i is taken by the scraper as a family link for slug
TakenForFamily(i, slug) ==
    /\ PageAnchors[i].inItem
    /\ IsFamilyHref(PageAnchors[i].href)
    /\ Lower(PageAnchors[i].href[2]) = slug

\* anchor i is taken by the scraper as the link of the pair (slug, platform)
TakenForPair(i, slug, platform) ==
    /\ ProductHrefMatches(PageAnchors[i].href)
    /\ MatchProduct(PageAnchors[i].href) = slug
    /\ PlatformOfToken(MatchPlatformUrl(PageAnchors[i].href)) = platform

\* the landing page has been scraped
Scraped == Ran("validate_landing_page_products")

FamilySlugsOnPage ==
    {Lower(PageAnchors[i].href[2]) :
        i \in {j \in 1..Len(PageAnchors) :
                  PageAnchors[j].inItem /\ IsFamilyHref(PageAnchors[j].href)}}

PairsOnPage ==
    {<<MatchProduct(PageAnchors[i].href),
       PlatformOfToken(MatchPlatformUrl(PageAnchors[i].href))>> :
        i \in {j \in 1..Len(PageAnchors) : ProductHrefMatches(PageAnchors[j].href)}}

PairsInIndex ==
    UNION {{<<slug, platform>> : platform \in DOMAIN product_links[slug]} :
              slug \in DOMAIN product_links}

\* every entry of the index holds the URL of the first anchor taken for it
FirstAnchorDecides ==
    Scraped =>
        /\ DOMAIN family_links = FamilySlugsOnPage
        /\ \A slug \in DOMAIN family_links :
              \E i \in 1..Len(PageAnchors) :
                  /\ TakenForFamily(i, slug)
                  /\ \A j \in 1..(i - 1) : ~TakenForFamily(j, slug)
                  /\ family_links[slug] = UrlJoin(BaseUrl, PageAnchors[i].href)
        /\ PairsInIndex = PairsOnPage
        /\ \A pair \in PairsInIndex :
              \E i \in 1..Len(PageAnchors) :
                  /\ TakenForPair(i, pair[1], pair[2])
                  /\ \A j \in 1..(i - 1) : ~TakenForPair(j, pair[1], pair[2])
                  /\ product_links[pair[1]][pair[2]] =
                         UrlJoin(BaseUrl, PageAnchors[i].href)

\* the stages after the scrape leave the index alone
IndexKept ==
    pc \in {"family", "report", "json", "returned"} =>
        /\ family_links' = family_links
        /\ product_links' = product_links

\* C11: while the landing page is scraped the first anchor in page order
\* decides each entry of family_links and product_links (a later anchor with
\* the same slug or the same (slug, platform) pair does not change the URL),
\* and the entries stay unchanged through family page validation and report
\* generation
C11_FirstAnchorWins == []FirstAnchorDecides /\ [][IndexKept]_vars

\* two anchors taken for the same family slug with different hrefs
DuplicateFamilyAnchors ==
    \E i, j \in 1..Len(PageAnchors) :
        /\ i < j
        /\ PageAnchors[i].href # PageAnchors[j].href
        /\ \E slug \in DOMAIN family_links :
              TakenForFamily(i, slug) /\ TakenForFamily(j, slug)

\* two anchors taken for the same pair with different hrefs
DuplicatePairAnchors ==
    \E i, j \in 1..Len(PageAnchors) :
        /\ i < j
        /\ PageAnchors[i].href # PageAnchors[j].href
        /\ \E pair \in PairsInIndex :
              TakenForPair(i, pair[1], pair[2]) /\ TakenForPair(j, pair[1], pair[2])

\* a page with two different anchors for slug total has been scraped, the
\* first one is in the index, and the run has gone through the later stages
C11_Witness ==
    /\ pc = "exited"
    /\ Ran("generate_json_output")
    /\ DuplicateFamilyAnchors
    /\ family_links[Lower(sTotal)] = UrlJoin(BaseUrl, PageAnchors[1].href)

-----------------------------------------------------------------------------
(* C12.  Only two-segment hrefs are product+platform links.                *)

\* the href has exactly the shape /<segment>/<platform-token>/
IsTwoSegmentHref(href) ==
    /\ Len(href) = 4
    /\ href[1] = <<>>
    /\ href[2] # <<>>
    /\ href[3] \in PlatformTokens
    /\ href[4] = <<>>

\* C12: an anchor of the landing page is recorded in product_links only if
\* its href has exactly the two-segment shape /<segment>/<platform-token>/
\* with the token one of net, java, nodejs-java, python-net, and it is
\* recorded under its own segment and platform; an href with more leading
\* segments, such as /docs/total/net/, is not recorded for slug total
C12_OnlyTwoSegmentHrefsRecorded ==
    Scraped =>
        \A pair \in PairsInIndex :
            LET href == product_links[pair[1]][pair[2]].path
            IN  /\ IsTwoSegmentHref(href)
                /\ Lower(href[2]) = pair[1]
                /\ PlatformOfToken(href[3]) = pair[2]

-----------------------------------------------------------------------------
(* C13.  The family page stage skips a product without a family link, and  *)
(* that product's missing family link is already reported.                 *)

\* the error list holds the "missing family link on landing page" error of name
MissingFamilyReported(name) ==
    \E k \in 1..Len(errors) :
        errors[k].kind = "landing_missing_family" /\ errors[k].product = name

\* the step issues no request for name
NoNewRequestFor(name) ==
    /\ Len(requestLog') >= Len(requestLog)
    /\ \A k \in (Len(requestLog) + 1)..Len(requestLog') :
          requestLog'[k].product # name

\* the step appends no error for name
NoNewErrorFor(name) ==
    /\ Len(errors') >= Len(errors)
    /\ \A k \in 1..Len(errors) : errors'[k] = errors[k]
    /\ \A k \in (Len(errors) + 1)..Len(errors') : errors'[k].product # name

FamilyStageSkips ==
    pc = "family" =>
        \A i \in 1..Len(products_data) :
            LET name == products_data[i].name
            IN  /\ ~FamilyLinkFound(name) =>
                      /\ NoNewRequestFor(name)
                      /\ NoNewErrorFor(name)
                      /\ MissingFamilyReported(name)
                /\ MissingFamilyReported(name) => NoNewRequestFor(name)

\* C13: when validate_family_pages runs, for every validated product for
\* which no variation has a family link the stage issues no request and
\* appends no error, and the error list it starts from already holds the
\* product's "missing family link on landing page" error; and a product with
\* that error is not fetched by the stage
C13_NoFamilyLinkSkippedAndReported == [][FamilyStageSkips]_vars

\* the family stage has run over two products: one without a family link
\* (reported, never requested, no family-stage error) and one that was fetched
C13_Witness ==
    /\ pc = "report"
    /\ \E i, j \in 1..Len(products_data) :
          /\ ~FamilyLinkFound(products_data[i].name)
          /\ MissingFamilyReported(products_data[i].name)
          /\ FamilyRequests(products_data[i].name) = 0
          /\ FamilyErrors(products_data[i].name) = {}
          /\ FamilyLinkFound(products_data[j].name)
          /\ FamilyRequests(products_data[j].name) = 1

-----------------------------------------------------------------------------
(* C14.  What an exit status of 0 says about the run.                      *)

\* the page has an anchor /<slug>/<platform-token>/ whose slug is a variation
\* of the product and whose token stands for the manifest key
MatchingAnchor(anchors, name, key) ==
    LET vs == GetProductNameVariations(name)
    IN  \E i \in 1..Len(anchors) :
            /\ IsTwoSegmentHref(anchors[i].href)
            /\ \E k \in 1..Len(vs) : vs[k] = Lower(anchors[i].href[2])
            /\ PlatformOfToken(anchors[i].href[3]) = CanonicalOf(key)

\* C14: if the run exits with status 0, then the manifest yielded at least
\* one validated product, both report artifacts were written, and for every
\* validated product a family link was found on the landing page, its family
\* page was fetched once and came back with status 200 and a body of at
\* least 100 characters without raising, and every platform with a non-null
\* version has a matching link both on the landing page and on the family page
C14_ExitZeroMeansAllFound ==
    (pc = "exited" /\ exitCode = 0) =>
        /\ Len(products_data) >= 1
        /\ reportFile.written
        /\ jsonFile.written
        /\ \A i \in 1..Len(products_data) :
              LET name == products_data[i].name
              IN  /\ FamilyLinkFound(name)
                  /\ FamilyRequests(name) = 1
                  /\ name \in DOMAIN familyResp
                  /\ Usable(familyResp[name])
                  /\ \A j \in 1..Len(products_data[i].platforms) :
                        LET p == products_data[i].platforms[j]
                        IN  p.version # None =>
                                /\ MatchingAnchor(PageAnchors, name, p.key)
                                /\ MatchingAnchor(familyResp[name].anchors,
                                                  name, p.key)

====
